---- MODULE Spec2Model ----
(***************************************************************************)
(* Model of the availability detector and of the resilient click helper    *)
(* of play.py and playtest.py.  The two files are two builds of the same   *)
(* program; the variable `variant` says which one runs.                    *)
(*                                                                         *)
(* A text is a sequence of one-character strings.  A page is the sequence  *)
(* of its frames (page.frames, in enumeration order); a frame is a record  *)
(*   els : the DOM elements of the frame, in document order                *)
(*   ui  : which form of the "no slots" indicator the frame shows          *)
(*   bad : which lookup of any_no_slots_ui_in_frame raises in this frame   *)
(* and an element is a record                                              *)
(*   kind   : "slot" (button.dl-button-slot), "clickable" (button,         *)
(*            [role=button] or a, without the slot class), "other"         *)
(*   status : "visible", "hidden" (is_visible() is False) or "detached"    *)
(*            (is_visible() or inner_text() raises)                        *)
(*   text   : what inner_text() returns                                    *)
(*                                                                         *)
(* State of one call of detect_availability:                               *)
(*   pc        : "start", "slots" (first while loop), "idle" (before the   *)
(*               network-idle wait), "noslots" (second loop), "done"       *)
(*   now       : time.time(), in milliseconds since the call               *)
(*   deadline  : the local variable deadline                               *)
(*   result    : the returned pair, Pending until the call returns         *)
(*   slotPolls, noSlotPolls : iterations of the two loops so far           *)
(*   sawToken     : some slot-scan poll found a frame with time tokens     *)
(*   sawIndicator : some no-slots poll found a frame with the indicator    *)
(*   fresh        : "pending" when the last frame of page.frames appeared  *)
(*                  after the latest poll, "scanned" when the latest poll  *)
(*                  was the first to scan it, "no" otherwise               *)
(*   idled        : how the network-idle wait ended: "no" (not run yet),   *)
(*                  "idle" (load state reached) or "timeout"               *)
(* State of one call of try_click_variants: plan, tried, clickRet.         *)
(* State of one run of main: pc, result and mainLog, the calls main has    *)
(* made so far, each with what it returned or raised.                      *)
(***************************************************************************)
EXTENDS Integers, Sequences, FiniteSets, TLC

VARIABLES variant, frames, pc, now, deadline, result,
          slotPolls, noSlotPolls, sawToken, sawIndicator, fresh, idled,
          plan, tried, clickRet, mainLog

vars == <<variant, frames, pc, now, deadline, result,
          slotPolls, noSlotPolls, sawToken, sawIndicator, fresh, idled,
          plan, tried, clickRet, mainLog>>

detectVars == <<variant, frames, pc, now, deadline, result,
                slotPolls, noSlotPolls, sawToken, sawIndicator, fresh,
                idled>>

clickVars == <<plan, tried, clickRet>>

mainVars == <<mainLog>>

Variants == {"play", "playtest"}

(***************************************************************************)
(* Program constants (milliseconds, element caps).                         *)
(***************************************************************************)
WAIT_AFTER_FLOW_MS == 1500
SLOTS_WAIT_MS == 40000
NO_SLOTS_WAIT_MS == 30000
POLL_MS == 600
IDLE_TIMEOUT_CAP_MS == 15000

\* range(min(count, cap)) of the slot-button tier
SlotCap(v) == IF v = "play" THEN 200 ELSE 300

\* range(min(count, cap)) of the generic tier
GenericCap(v) == IF v = "play" THEN 400 ELSE 600

Min(a, b) == IF a < b THEN a ELSE b

(***************************************************************************)
(* Characters.                                                             *)
(***************************************************************************)
Digits == {"0", "1", "2", "3", "4", "5", "6", "7", "8", "9"}

\* The characters of the model's texts in code point order; sorted() of
\* Python strings compares code points, and Rank is order-isomorphic to it.
Alphabet == <<" ", "-", "0", "1", "2", "3", "4", "5", "6", "7", "8", "9", ":",
              "S", "a", "b", "i", "k", "n", "o", "t", "u", "v">>

Rank(c) == CHOOSE i \in 1..Len(Alphabet) : Alphabet[i] = c

DigitVal(c) == Rank(c) - Rank("0")

\* \w of the regular expression
IsWord(c) == c \notin {" ", "-", ":"}

IsSpace(c) == c = " "

SubText(txt, a, b) == [i \in 1..(b - a) |-> txt[a + i - 1]]

\* str.strip()
RECURSIVE LStrip(_)
LStrip(txt) ==
    IF txt # <<>> /\ IsSpace(Head(txt)) THEN LStrip(Tail(txt)) ELSE txt

RECURSIVE RStrip(_)
RStrip(txt) ==
    IF txt # <<>> /\ IsSpace(txt[Len(txt)])
    THEN RStrip(SubText(txt, 1, Len(txt)))
    ELSE txt

Strip(txt) == RStrip(LStrip(txt))

\* ":" in txt
HasColon(txt) == \E i \in 1..Len(txt) : txt[i] = ":"

(***************************************************************************)
(* TIME_RE = \b([01]?\d|2[0-3]):[0-5]\d\b, matched as the backtracking     *)
(* matcher does.  Positions are 1-based; position p lies before txt[p].    *)
(***************************************************************************)
WordBoundary(txt, p) ==
    (p > 1 /\ p - 1 <= Len(txt) /\ IsWord(txt[p - 1]))
        # (p >= 1 /\ p <= Len(txt) /\ IsWord(txt[p]))

CharIn(txt, p, S) == p >= 1 /\ p <= Len(txt) /\ txt[p] \in S

\* :[0-5]\d\b at position q
MatchTail(txt, q) ==
    /\ CharIn(txt, q, {":"})
    /\ CharIn(txt, q + 1, {"0", "1", "2", "3", "4", "5"})
    /\ CharIn(txt, q + 2, Digits)
    /\ WordBoundary(txt, q + 3)

\* Length of the hour group of the match that starts at p, 0 when TIME_RE
\* does not match at p.  Alternatives in the matcher's order: [01]\d, then
\* \d alone ([01]? matching nothing), then 2[0-3].
HourLen(txt, p) ==
    IF ~WordBoundary(txt, p) THEN 0
    ELSE IF /\ CharIn(txt, p, {"0", "1"})
            /\ CharIn(txt, p + 1, Digits)
            /\ MatchTail(txt, p + 2) THEN 2
    ELSE IF CharIn(txt, p, Digits) /\ MatchTail(txt, p + 1) THEN 1
    ELSE IF /\ CharIn(txt, p, {"2"})
            /\ CharIn(txt, p + 1, {"0", "1", "2", "3"})
            /\ MatchTail(txt, p + 2) THEN 2
    ELSE 0

\* re.finditer: the non-overlapping matches from position p on, leftmost
\* first, each as [from, hour] (start position, length of group 1).
RECURSIVE FindIter(_, _)
FindIter(txt, p) ==
    IF p > Len(txt) THEN <<>>
    ELSE LET h == HourLen(txt, p)
         IN  IF h > 0
             THEN <<[from |-> p, hour |-> h]>> \o FindIter(txt, p + h + 3)
             ELSE FindIter(txt, p + 1)

Range(s) == {s[i] : i \in 1..Len(s)}

\* m.group(0) of every match
FullMatches(txt) ==
    {SubText(txt, m.from, m.from + m.hour + 3) : m \in Range(FindIter(txt, 1))}

\* re.findall with one capturing group: group 1 (the hour) of every match
HourGroups(txt) ==
    {SubText(txt, m.from, m.from + m.hour) : m \in Range(FindIter(txt, 1))}

\* TIME_RE.search(txt)
Search(txt) == FindIter(txt, 1) # <<>>

(***************************************************************************)
(* sorted(times): ascending by code point, a proper prefix first.          *)
(***************************************************************************)
RECURSIVE LexLess(_, _)
LexLess(a, b) ==
    IF a = <<>> THEN b # <<>>
    ELSE IF b = <<>> THEN FALSE
    ELSE IF Head(a) # Head(b) THEN Rank(Head(a)) < Rank(Head(b))
    ELSE LexLess(Tail(a), Tail(b))

RECURSIVE SortedUnsafe(_)
SortedUnsafe(S) ==
    IF S = {} THEN <<>>
    ELSE LET m == CHOOSE x \in S : \A y \in S \ {x} : LexLess(y, x)
         IN  <<m>> \o SortedUnsafe(S \ {m})

RECURSIVE Sorted(_)
Sorted(S) ==
    IF S = {} THEN <<>>
    ELSE LET m == CHOOSE x \in S : \A y \in S \ {x} : LexLess(x, y)
         IN  <<m>> \o Sorted(S \ {m})

(***************************************************************************)
(* find_slot_times_in_frame                                                *)
(***************************************************************************)
\* frame.locator("button.dl-button-slot"): the slot buttons, in DOM order
SlotTier(frame) == SelectSeq(frame.els, LAMBDA e : e.kind = "slot")

\* frame.locator("button, [role=button], a"): every clickable, slot buttons
\* included, in DOM order
GenericTier(frame) ==
    SelectSeq(frame.els, LAMBDA e : e.kind \in {"slot", "clickable"})

\* The tokens one text adds to `times` in the slot-button tier.  play.py
\* adds what re.findall returns, which with the one capturing group of its
\* TIME_RE is the hour group (a str, so the isinstance(t, tuple) branch is
\* never taken); playtest.py adds m.group(0).
SlotTokens(v, txt) ==
    IF v = "play" THEN HourGroups(txt) ELSE FullMatches(txt)

\* The tokens one text adds to `times` in the generic tier.
GenericTokens(v, txt) ==
    IF v = "play"
    THEN IF HasColon(txt) /\ Search(txt) THEN FullMatches(txt) ELSE {}
    ELSE IF HasColon(txt) THEN FullMatches(txt) ELSE {}

TextTokens(v, which, txt) ==
    IF which = "slot" THEN SlotTokens(v, txt) ELSE GenericTokens(v, txt)

\* How many elements of a tier the loop handles before it ends: all of the
\* first min(count, cap), or those before the first element whose
\* is_visible() or inner_text() raises (the try encloses the whole loop).
Handled(tier, cap) ==
    LET n == Min(Len(tier), cap)
        raising == {i \in 1..n : tier[i].status = "detached"}
    IN  IF raising = {} THEN n
        ELSE (CHOOSE i \in raising : \A j \in raising : i <= j) - 1

ReadIndexesAnyState(tier, cap) ==
    {i \in 1..Handled(tier, cap) : tier[i].status # "detached"}

\* The indexes of a tier whose text is read (visible, and reached)
ReadIndexes(tier, cap) ==
    {i \in 1..Handled(tier, cap) : tier[i].status = "visible"}

TierTimes(v, which, tier, cap) ==
    UNION {TextTokens(v, which, Strip(tier[i].text)) : i \in ReadIndexes(tier, cap)}

FrameTimeSet(v, frame) ==
    TierTimes(v, "slot", SlotTier(frame), SlotCap(v))
        \cup TierTimes(v, "generic", GenericTier(frame), GenericCap(v))

find_slot_times_in_frame_unsorted(v, frame) == SortedUnsafe(FrameTimeSet(v, frame))

find_slot_times_in_frame(v, frame) == Sorted(FrameTimeSet(v, frame))

(***************************************************************************)
(* any_no_slots_ui_in_frame.  frame.ui holds the forms of the indicator    *)
(* the frame shows: "button" / "link" (the first element of that role      *)
(* whose name matches btn_regex is visible), "body" (the body text holds   *)
(* the phrase); frame.bad holds the lookups that raise.                    *)
(***************************************************************************)
\* first try block: the button lookup, then the link lookup
RoleIndicator(frame) ==
    IF "button" \in frame.bad THEN FALSE
    ELSE IF "button" \in frame.ui THEN TRUE
    ELSE IF "link" \in frame.bad THEN FALSE
    ELSE "link" \in frame.ui

\* second try block: the body text
BodyIndicator(frame) == "body" \notin frame.bad /\ "body" \in frame.ui

any_no_slots_ui_in_frame(frame) == RoleIndicator(frame) \/ BodyIndicator(frame)

(***************************************************************************)
(* The pages the detector is run against.                                  *)
(***************************************************************************)
TxtBook == <<"0", "9", ":", "3", "0", " ", "-", " ", "b", "o", "o", "k">>
Txt905 == <<"9", ":", "0", "5">>
Txt0905 == <<"0", "9", ":", "0", "5">>
Txt1000 == <<"1", "0", ":", "0", "0">>
Txt2400 == <<"2", "4", ":", "0", "0">>
Txt1260 == <<"1", "2", ":", "6", "0">>
TxtSuivant == <<"S", "u", "i", "v", "a", "n", "t">>

Element(k, s, t) == [kind |-> k, status |-> s, text |-> t]

Frame(e, u, b) == [els |-> e, ui |-> u, bad |-> b]

ElSlotBook == Element("slot", "visible", TxtBook)
El905 == Element("clickable", "visible", Txt905)
ElSuivant == Element("clickable", "visible", TxtSuivant)
ElHiddenBook == Element("clickable", "hidden", TxtBook)
ElDetached == Element("clickable", "detached", TxtSuivant)
ElNote == Element("other", "visible", Txt1000)

\* Frames of the detector runs: frames with elements and no indicator,
\* and frames with an indicator and no element.
DetectFrames ==
    {Frame(e, {}, {}) : e \in {<<>>, <<ElSlotBook>>, <<El905>>, <<ElSuivant>>,
                               <<ElHiddenBook>>, <<ElDetached, El905>>,
                               <<El905, ElSlotBook>>, <<ElNote>>}}
    \cup {Frame(<<>>, {"button"}, {}), Frame(<<>>, {"link"}, {}),
          Frame(<<>>, {"link"}, {"button"}), Frame(<<>>, {"body"}, {}),
          Frame(<<>>, {"body"}, {"body"})}

\* page.frames holds the main frame and at most MaxFrames - 1 child frames
MaxFrames == 2

\* What one poll's scan of all frames can take, and what a network-idle
\* wait that succeeds can take (milliseconds)
ScanFastMs == 14400
ScanSlowMs == 29400
IdleQuickMs == 400

ScanCosts == {ScanFastMs, ScanSlowMs}

Pending == [state |-> "pending", times |-> <<>>]

(***************************************************************************)
(* detect_availability                                                     *)
(***************************************************************************)
\* for fr in page.frames: times = find_slot_times_in_frame(fr);
\*                        if times: return ("available", times)
\* The list of the first frame whose list is not empty, <<>> when none is.
FirstTimesMainOnly(v, fs) ==
    IF fs = <<>> THEN <<>> ELSE find_slot_times_in_frame(v, Head(fs))

RECURSIVE FirstTimesQuiet(_, _)
FirstTimesQuiet(v, fs) ==
    IF fs = <<>> \/ (\E i \in 1..Len(fs) : any_no_slots_ui_in_frame(fs[i]))
    THEN <<>>
    ELSE LET times == find_slot_times_in_frame(v, Head(fs))
         IN  IF times # <<>> THEN times ELSE FirstTimesQuiet(v, Tail(fs))

RECURSIVE FirstTimes(_, _)
FirstTimes(v, fs) ==
    IF fs = <<>> THEN <<>>
    ELSE LET times == find_slot_times_in_frame(v, Head(fs))
         IN  IF times # <<>> THEN times ELSE FirstTimes(v, Tail(fs))

\* for fr in page.frames: if any_no_slots_ui_in_frame(fr): return ("none", [])
AnyNoSlotsUi(fs) == \E i \in 1..Len(fs) : any_no_slots_ui_in_frame(fs[i])

ClickIdle == plan = <<>> /\ tried = <<>> /\ clickRet = "idle"

Init ==
    /\ variant \in Variants
    /\ frames \in {<<f>> : f \in DetectFrames}
    /\ pc = "start"
    /\ now = 0
    /\ deadline = 0
    /\ result = Pending
    /\ slotPolls = 0
    /\ noSlotPolls = 0
    /\ sawToken = FALSE
    /\ sawIndicator = FALSE
    /\ fresh = "no"
    /\ idled = "no"
    /\ ClickIdle
    /\ mainLog = <<>>

\* The page changes under the detector: a child frame appears or goes, or
\* a frame's content is replaced.
DomChange ==
    /\ pc # "done"
    /\ \/ \E f \in DetectFrames :
            /\ Len(frames) < MaxFrames
            /\ frames' = Append(frames, f)
            /\ fresh' = "pending"
       \/ /\ Len(frames) > 1
          /\ frames' = SubSeq(frames, 1, Len(frames) - 1)
          /\ fresh' = "no"
       \/ \E i \in 1..Len(frames), f \in DetectFrames :
            /\ f # frames[i]
            /\ frames' = [frames EXCEPT ![i] = f]
            /\ fresh' = fresh
    /\ UNCHANGED <<variant, pc, now, deadline, result, slotPolls, noSlotPolls,
                   sawToken, sawIndicator>>
    /\ UNCHANGED clickVars
    /\ UNCHANGED <<idled, mainLog>>

\* page.wait_for_timeout(WAIT_AFTER_FLOW_MS); deadline = time.time() + SLOTS_WAIT_MS
Settle ==
    /\ pc = "start"
    /\ now' = now + WAIT_AFTER_FLOW_MS
    /\ deadline' = now' + SLOTS_WAIT_MS
    /\ pc' = "slots"
    /\ UNCHANGED <<variant, frames, result, slotPolls, noSlotPolls, sawToken,
                   sawIndicator>>
    /\ UNCHANGED clickVars
    /\ UNCHANGED <<fresh, idled, mainLog>>

SlotPollCachedFrames ==
    /\ pc = "slots"
    /\ now < deadline
    /\ LET cached == IF fresh = "pending" THEN Len(frames) - 1
                     ELSE Len(frames)
       IN  /\ \E cost \in ScanCosts :
                LET times == FirstTimes(variant, SubSeq(frames, 1, cached))
                IN  IF times # <<>>
                    THEN /\ result' = [state |-> "available", times |-> times]
                         /\ pc' = "done"
                         /\ now' = now + cost
                    ELSE /\ result' = result
                         /\ pc' = "slots"
                         /\ now' = now + cost + POLL_MS
           /\ sawToken' = (sawToken \/ \E i \in 1..cached :
                                         FrameTimeSet(variant, frames[i]) # {})
           /\ fresh' = "no"
    /\ slotPolls' = slotPolls + 1
    /\ UNCHANGED <<variant, frames, deadline, noSlotPolls, sawIndicator>>
    /\ UNCHANGED clickVars
    /\ UNCHANGED <<idled, mainLog>>

\* One iteration of the first while loop: the scan of every frame, then
\* either the return or page.wait_for_timeout(600).
SlotPoll ==
    /\ pc = "slots"
    /\ now < deadline
    /\ slotPolls' = slotPolls + 1
    /\ \E cost \in ScanCosts :
         LET times == FirstTimes(variant, frames)
         IN  IF times # <<>>
             THEN /\ result' = [state |-> "available", times |-> times]
                  /\ pc' = "done"
                  /\ now' = now + cost
             ELSE /\ result' = result
                  /\ pc' = "slots"
                  /\ now' = now + cost + POLL_MS
    /\ sawToken' = (sawToken \/ \E i \in 1..Len(frames) :
                                  FrameTimeSet(variant, frames[i]) # {})
    /\ fresh' = IF fresh = "pending" THEN "scanned" ELSE "no"
    /\ UNCHANGED <<variant, frames, deadline, noSlotPolls, sawIndicator>>
    /\ UNCHANGED clickVars
    /\ UNCHANGED <<idled, mainLog>>

SlotExpireGiveUp ==
    /\ pc = "slots"
    /\ now >= deadline
    /\ result' = [state |-> "unknown", times |-> <<>>]
    /\ pc' = "done"
    /\ UNCHANGED <<variant, frames, now, deadline, slotPolls, noSlotPolls,
                   sawToken, sawIndicator>>
    /\ UNCHANGED clickVars
    /\ UNCHANGED <<fresh, idled, mainLog>>

SlotExpireEarly ==
    /\ pc = "slots"
    /\ pc' = "idle"
    /\ UNCHANGED <<variant, frames, now, deadline, result, slotPolls,
                   noSlotPolls, sawToken, sawIndicator>>
    /\ UNCHANGED clickVars
    /\ UNCHANGED <<fresh, idled, mainLog>>

\* The first while loop ends: time.time() >= deadline
SlotExpire ==
    /\ pc = "slots"
    /\ now >= deadline
    /\ pc' = "idle"
    /\ UNCHANGED <<variant, frames, now, deadline, result, slotPolls,
                   noSlotPolls, sawToken, sawIndicator>>
    /\ UNCHANGED clickVars
    /\ UNCHANGED <<fresh, idled, mainLog>>

IdleWaitTimeoutFatal ==
    /\ pc = "idle"
    /\ \/ /\ idled' = "idle"
          /\ now' = now + (IF variant = "play" THEN POLL_MS ELSE 0) + IdleQuickMs
          /\ deadline' = now' + NO_SLOTS_WAIT_MS
          /\ pc' = "noslots"
          /\ result' = result
       \/ /\ idled' = "timeout"
          /\ now' = now + (IF variant = "play" THEN POLL_MS ELSE 0)
                        + Min(IDLE_TIMEOUT_CAP_MS, NO_SLOTS_WAIT_MS)
          /\ deadline' = deadline
          /\ pc' = "done"
          /\ result' = [state |-> "unknown", times |-> <<>>]
    /\ UNCHANGED <<variant, frames, slotPolls, noSlotPolls, sawToken,
                   sawIndicator>>
    /\ UNCHANGED clickVars
    /\ UNCHANGED <<fresh, mainLog>>

\* (play.py: page.wait_for_timeout(600);) page.wait_for_load_state(
\* "networkidle", timeout=min(15000, NO_SLOTS_WAIT_MS)), its timeout caught;
\* then deadline = time.time() + NO_SLOTS_WAIT_MS
IdleWait ==
    /\ pc = "idle"
    /\ \/ /\ idled' = "idle"
          /\ now' = now + (IF variant = "play" THEN POLL_MS ELSE 0) + IdleQuickMs
       \/ /\ idled' = "timeout"
          /\ now' = now + (IF variant = "play" THEN POLL_MS ELSE 0)
                        + Min(IDLE_TIMEOUT_CAP_MS, NO_SLOTS_WAIT_MS)
    /\ deadline' = now' + NO_SLOTS_WAIT_MS
    /\ pc' = "noslots"
    /\ UNCHANGED <<variant, frames, result, slotPolls, noSlotPolls, sawToken,
                   sawIndicator>>
    /\ UNCHANGED clickVars
    /\ UNCHANGED <<fresh, mainLog>>

\* One iteration of the second while loop
NoSlotsPoll ==
    /\ pc = "noslots"
    /\ now < deadline
    /\ noSlotPolls' = noSlotPolls + 1
    /\ \E cost \in ScanCosts :
         IF AnyNoSlotsUi(frames)
         THEN /\ result' = [state |-> "none", times |-> <<>>]
              /\ pc' = "done"
              /\ now' = now + cost
         ELSE /\ result' = result
              /\ pc' = "noslots"
              /\ now' = now + cost + POLL_MS
    /\ sawIndicator' = (sawIndicator \/ \E i \in 1..Len(frames) :
                                          any_no_slots_ui_in_frame(frames[i]))
    /\ fresh' = IF fresh = "pending" THEN "scanned" ELSE "no"
    /\ UNCHANGED <<variant, frames, deadline, slotPolls, sawToken>>
    /\ UNCHANGED clickVars
    /\ UNCHANGED <<idled, mainLog>>

NoSlotsExpireHang ==
    /\ pc = "noslots"
    /\ now >= deadline
    /\ UNCHANGED vars

\* The second while loop ends: return ("unknown", [])
NoSlotsExpire ==
    /\ pc = "noslots"
    /\ now >= deadline
    /\ result' = [state |-> "unknown", times |-> <<>>]
    /\ pc' = "done"
    /\ UNCHANGED <<variant, frames, now, deadline, slotPolls, noSlotPolls,
                   sawToken, sawIndicator>>
    /\ UNCHANGED clickVars
    /\ UNCHANGED <<fresh, idled, mainLog>>

Next ==
    \/ DomChange
    \/ Settle
    \/ SlotPoll
    \/ SlotExpire
    \/ IdleWait
    \/ NoSlotsPoll
    \/ NoSlotsExpire

Spec == Init /\ [][Next]_vars

\* The steps of detect_availability itself.  Each is a wait that returns
\* or a loop test on a clock that advances, so the program takes its next
\* step whenever it has one.
DetectorStep ==
    \/ Settle
    \/ SlotPoll
    \/ SlotExpire
    \/ IdleWait
    \/ NoSlotsPoll
    \/ NoSlotsExpire

\* One call on a page that holds still, with the scheduling that the
\* termination argument is about.
FairSpec == Init /\ [][DetectorStep]_vars /\ WF_vars(DetectorStep)

(***************************************************************************)
(* Vocabulary of the properties, stated on texts and pages and not on the  *)
(* matcher: what a valid HH:MM token of a text is, which texts a scan      *)
(* reads, string order.                                                    *)
(***************************************************************************)
\* txt[a..b-1] is one or two digits, a colon and two digits, hour 0-23 and
\* minute 00-59, and is not glued to a word character on either side
IsTokenAt(txt, a, b) ==
    /\ a >= 1 /\ b <= Len(txt) + 1 /\ b - a \in {4, 5}
    /\ \A i \in a..(b - 1) : IF i = b - 3 THEN txt[i] = ":" ELSE txt[i] \in Digits
    /\ (b - a = 5) => (10 * DigitVal(txt[a]) + DigitVal(txt[a + 1]) <= 23)
    /\ DigitVal(txt[b - 2]) <= 5
    /\ (a = 1 \/ ~IsWord(txt[a - 1]))
    /\ (b = Len(txt) + 1 \/ ~IsWord(txt[b]))

ValidTokens(txt) ==
    {SubText(txt, a, b) : <<a, b>> \in
        {ab \in (1..Len(txt)) \X (1..(Len(txt) + 1)) : IsTokenAt(txt, ab[1], ab[2])}}

\* The texts of the candidates of a frame that a scan reads successfully:
\* visible, within the cap, and reached before any read of its tier raises
ReadTexts(v, frame) ==
    {SlotTier(frame)[i].text : i \in ReadIndexes(SlotTier(frame), SlotCap(v))}
        \cup {GenericTier(frame)[i].text :
                 i \in ReadIndexes(GenericTier(frame), GenericCap(v))}

TokenRead(v, fs) ==
    \E i \in 1..Len(fs) : \E txt \in ReadTexts(v, fs[i]) : ValidTokens(txt) # {}

\* a < b as Python compares strings
StrLess(a, b) ==
    \E k \in 1..(Len(a) + 1) :
        /\ \A j \in 1..(k - 1) : j <= Len(b) /\ a[j] = b[j]
        /\ k <= Len(b)
        /\ (k <= Len(a) => Rank(a[k]) < Rank(b[k]))

\* Some form of the indicator is shown by a frame and the lookup of that
\* form does not raise
IndicatorShown(fs) ==
    \E i \in 1..Len(fs) : fs[i].ui \ fs[i].bad # {}

Returned == pc = "done"

(***************************************************************************)
(* C1: detect_availability returns exactly one of ('available', times),    *)
(* ('none', []) and ('unknown', []); with 'available' the list is not      *)
(* empty and strictly ascending in string order (sorted, no duplicates),   *)
(* with 'none' and 'unknown' it is empty.                                  *)
(***************************************************************************)
C1_ResultShape ==
    /\ Returned <=> result.state \in {"available", "none", "unknown"}
    /\ ~Returned => result = Pending
    /\ result.state = "available" =>
         /\ result.times # <<>>
         /\ \A i \in 1..(Len(result.times) - 1) :
              StrLess(result.times[i], result.times[i + 1])
    /\ result.state \in {"none", "unknown"} => result.times = <<>>

C1_Witness ==
    Returned /\ result.state = "available" /\ Len(result.times) >= 2

(***************************************************************************)
(* C2: a slot-scan poll that starts before the deadline and reads, in any  *)
(* frame, a visible candidate whose text holds a valid HH:MM token returns *)
(* 'available' at that poll: no later poll runs and the no-slots phase is  *)
(* never entered.                                                          *)
(***************************************************************************)
C2_TokenReadReturnsAvailable ==
    [][(slotPolls' = slotPolls + 1 /\ TokenRead(variant, frames))
         => (pc' = "done" /\ result'.state = "available" /\ noSlotPolls' = 0)]_vars

C2_Witness ==
    /\ Returned /\ result.state = "available"
    /\ slotPolls >= 2
    /\ Len(frames) = 2
    /\ ~TokenRead(variant, <<frames[1]>>)
    /\ TokenRead(variant, <<frames[2]>>)

(***************************************************************************)
(* C3: the list returned with 'available' holds every valid HH:MM token of *)
(* every text read in any frame at the poll that returned, whichever frame *)
(* it is in and wherever that frame is in the enumeration.                 *)
(***************************************************************************)
C3_AllFramesAccumulated ==
    (Returned /\ result.state = "available") =>
        \A i \in 1..Len(frames) : \A txt \in ReadTexts(variant, frames[i]) :
            ValidTokens(txt) \subseteq Range(result.times)

(***************************************************************************)
(* C4: 'none' is returned only if no slot-scan poll observed a token, and  *)
(* a poll that observes one returns 'available' even when the indicator    *)
(* of unavailability is in the document at the same time.                  *)
(***************************************************************************)
C4_SlotSignalWins ==
    /\ result.state = "none" => ~sawToken
    /\ sawToken => (Returned /\ result.state = "available")

C4_Witness ==
    /\ Returned /\ result.state = "available"
    /\ IndicatorShown(frames) /\ AnyNoSlotsUi(frames)

(***************************************************************************)
(* C5: when no slot-scan poll observed a token, a no-slots poll that       *)
(* starts before the deadline with the indicator shown in some frame       *)
(* returns ('none', []).                                                   *)
(***************************************************************************)
C5_IndicatorReturnsNone ==
    [][(noSlotPolls' = noSlotPolls + 1 /\ ~sawToken /\ IndicatorShown(frames))
         => (pc' = "done" /\ result' = [state |-> "none", times |-> <<>>])]_vars

(***************************************************************************)
(* C6: ('unknown', []) is returned if and only if no slot-scan poll        *)
(* observed a token and no no-slots poll observed the indicator, and only  *)
(* once both budgets are used up.                                          *)
(***************************************************************************)
C6_UnknownIffNoSignal ==
    /\ Returned => (result.state = "unknown" <=> (~sawToken /\ ~sawIndicator))
    /\ result.state = "unknown" =>
         /\ result.times = <<>>
         /\ now >= deadline
         /\ deadline >= WAIT_AFTER_FLOW_MS + SLOTS_WAIT_MS + NO_SLOTS_WAIT_MS
         /\ slotPolls >= 1 /\ noSlotPolls >= 1

C6_Witness == Returned /\ result.state = "unknown"

(***************************************************************************)
(* C17: the two phases are strictly sequential.  No check for the          *)
(* unavailability indicator happens before the slot-scan loop has ended    *)
(* by the expiry of its budget, and no slot scan happens after the first   *)
(* such check; so 'none' is returned only once the whole slots-wait budget *)
(* has elapsed, even when the indicator is visible from the start.         *)
(***************************************************************************)
C17_PhasesSequential ==
    [][/\ noSlotPolls' # noSlotPolls =>
            /\ pc = "noslots"
            /\ now >= WAIT_AFTER_FLOW_MS + SLOTS_WAIT_MS
       /\ (pc = "slots" /\ pc' \notin {"slots", "done"}) =>
            (now >= deadline /\ deadline = WAIT_AFTER_FLOW_MS + SLOTS_WAIT_MS)
       /\ noSlotPolls > 0 => slotPolls' = slotPolls
       /\ result'.state = "none" =>
            now' >= WAIT_AFTER_FLOW_MS + SLOTS_WAIT_MS]_vars

C17_Witness ==
    /\ Returned
    /\ result.state = "none"
    /\ slotPolls >= 2
    /\ noSlotPolls = 1
    /\ ~sawToken

(***************************************************************************)
(* C18: page.frames is read again at every poll of both loops.  A frame    *)
(* that appeared since the previous poll is scanned at the next poll, so   *)
(* the token or the indicator its scan finds decides that poll; a frame    *)
(* that has gone is not scanned any more, so a poll's result comes from    *)
(* the frames the page holds at that poll.                                 *)
(***************************************************************************)
C18_FramesReEnumerated ==
    [][/\ slotPolls' # slotPolls =>
            /\ (fresh = "pending" /\ FrameTimeSet(variant, frames[Len(frames)]) # {})
                  => result'.state = "available"
            /\ result'.state = "available" =>
                  \E i \in 1..Len(frames) :
                      result'.times = find_slot_times_in_frame(variant, frames[i])
       /\ noSlotPolls' # noSlotPolls =>
            /\ (fresh = "pending" /\ any_no_slots_ui_in_frame(frames[Len(frames)]))
                  => result'.state = "none"
            /\ result'.state = "none" =>
                  \E i \in 1..Len(frames) : any_no_slots_ui_in_frame(frames[i])]_vars

C18_Witness ==
    /\ Returned
    /\ result.state = "available"
    /\ slotPolls >= 2
    /\ fresh = "scanned"
    /\ FirstTimes(variant, SubSeq(frames, 1, Len(frames) - 1)) = <<>>

(***************************************************************************)
(* C19: after the slot-scan budget has expired without a token, a timeout  *)
(* of the network-idle wait is not an error.  The no-slots loop is entered *)
(* either way, its deadline is taken when the idle wait has ended, so it   *)
(* has its full budget, and the result ('none' or 'unknown') is decided by *)
(* that loop alone.                                                        *)
(***************************************************************************)
C19_IdleTimeoutIsNoError ==
    [][/\ (pc = "idle" /\ pc' # "idle") =>
            /\ idled' \in {"idle", "timeout"}
            /\ pc' = "noslots"
            /\ result' = Pending
            /\ deadline' = now' + NO_SLOTS_WAIT_MS
       /\ (pc = "noslots" /\ pc' = "done") =>
            /\ idled \in {"idle", "timeout"}
            /\ result'.state \in {"none", "unknown"}
            /\ result'.state = "none" <=>
                  (noSlotPolls' # noSlotPolls /\ AnyNoSlotsUi(frames))
            /\ result'.state = "unknown" <=> now >= deadline]_vars

C19_Witness ==
    /\ Returned
    /\ idled = "timeout"
    /\ result.state = "none"
    /\ noSlotPolls >= 2

(***************************************************************************)
(* C20: detect_availability always terminates.  While the clock advances   *)
(* and every wait returns, no poll of either loop starts after the loop's  *)
(* deadline, a result is eventually returned even when neither signal ever *)
(* appears, and the call ends only by a signal found at a poll or by the   *)
(* expiry of the no-slots budget.                                          *)
(***************************************************************************)
C20_AlwaysTerminates ==
    /\ <>Returned
    /\ [][/\ (slotPolls' # slotPolls \/ noSlotPolls' # noSlotPolls) =>
               now < deadline
          /\ (~Returned /\ Returned') =>
               \/ slotPolls' # slotPolls /\ result'.state = "available"
               \/ noSlotPolls' # noSlotPolls /\ result'.state = "none"
               \/ /\ pc = "noslots" /\ now >= deadline
                  /\ result'.state = "unknown"]_vars

C20_Witness ==
    /\ Returned
    /\ result.state = "unknown"
    /\ ~sawToken
    /\ ~sawIndicator
    /\ slotPolls >= 2
    /\ noSlotPolls >= 2

(***************************************************************************)
(* C21: no false positive.  detect_availability returns 'available' only   *)
(* from a poll of the slot-scan phase at which some frame held a visible   *)
(* slot button or generic clickable whose text matched HH:MM; the text of  *)
(* hidden elements and of elements that are not clickable, and whatever    *)
(* the no-slots phase observes, never gives 'available'.                   *)
(***************************************************************************)
VisibleClickableTime(fs) ==
    \E i \in 1..Len(fs) : \E k \in 1..Len(fs[i].els) :
        /\ fs[i].els[k].kind \in {"slot", "clickable"}
        /\ fs[i].els[k].status = "visible"
        /\ ValidTokens(fs[i].els[k].text) # {}

C21_NoFalsePositive ==
    /\ (Returned /\ result.state = "available") =>
         /\ VisibleClickableTime(frames)
         /\ slotPolls >= 1
         /\ noSlotPolls = 0 /\ idled = "no"
    /\ (noSlotPolls > 0 \/ pc \in {"idle", "noslots"}) =>
         result.state # "available"

C21_Witness ==
    /\ Returned
    /\ result.state = "available"
    /\ Len(frames) = 2
    /\ frames[1].els \in {<<ElNote>>, <<ElHiddenBook>>}
    /\ VisibleClickableTime(<<frames[2]>>)
    /\ slotPolls >= 2

(***************************************************************************)
(* find_slot_times_in_frame and any_no_slots_ui_in_frame on their own: one *)
(* frame is drawn and one of the two functions is applied to it.           *)
(***************************************************************************)
\* Elements per frame in the single-scan runs
MaxScanEls == 2

ScanTexts == {TxtBook, Txt905, Txt0905, Txt1000, Txt2400, Txt1260, TxtSuivant}

ScanElements ==
    {Element(k, "visible", t) : k \in {"slot", "clickable", "other"}, t \in ScanTexts}
        \cup {Element(k, "hidden", TxtBook) : k \in {"slot", "clickable"}}
        \cup {Element(k, "detached", Txt1000) : k \in {"slot", "clickable"}}

IndicatorForms == {"button", "link", "body"}

\* Frames with candidate elements and no indicator, and frames without
\* elements where each form of the indicator is shown or not and each of
\* the three lookups raises or not
ScanFrames ==
    {Frame(e, {}, {}) :
        e \in UNION {[1..n -> ScanElements] : n \in 0..MaxScanEls}}
    \cup {Frame(<<>>, u, b) : u \in SUBSET IndicatorForms,
                              b \in SUBSET IndicatorForms}

ScanInit ==
    /\ variant \in Variants
    /\ frames \in {<<f>> : f \in ScanFrames}
    /\ pc = "scan"
    /\ now = 0
    /\ deadline = 0
    /\ result = Pending
    /\ slotPolls = 0
    /\ noSlotPolls = 0
    /\ sawToken = FALSE
    /\ sawIndicator = FALSE
    /\ fresh = "no"
    /\ idled = "no"
    /\ ClickIdle
    /\ mainLog = <<>>

\* times = find_slot_times_in_frame(fr)
ScanFrame ==
    /\ pc = "scan"
    /\ result' = [state |-> "scanned",
                  times |-> find_slot_times_in_frame(variant, frames[1])]
    /\ pc' = "scanned"
    /\ UNCHANGED <<variant, frames, now, deadline, slotPolls, noSlotPolls,
                   sawToken, sawIndicator>>
    /\ UNCHANGED clickVars
    /\ UNCHANGED <<fresh, idled, mainLog>>

\* any_no_slots_ui_in_frame(fr)
ScanIndicator ==
    /\ pc = "scan"
    /\ result' = [state |-> IF any_no_slots_ui_in_frame(frames[1])
                            THEN "indicator" ELSE "no_indicator",
                  times |-> <<>>]
    /\ pc' = "checked"
    /\ UNCHANGED <<variant, frames, now, deadline, slotPolls, noSlotPolls,
                   sawToken, sawIndicator>>
    /\ UNCHANGED clickVars
    /\ UNCHANGED <<fresh, idled, mainLog>>

ScanNext == ScanFrame \/ ScanIndicator

ScanSpec == ScanInit /\ [][ScanNext]_vars

Scanned == pc = "scanned"

\* The clock time a complete token denotes, in minutes
ClockOf(t) ==
    IF Len(t) = 5
    THEN 60 * (10 * DigitVal(t[1]) + DigitVal(t[2])) + 10 * DigitVal(t[4]) + DigitVal(t[5])
    ELSE 60 * DigitVal(t[1]) + 10 * DigitVal(t[3]) + DigitVal(t[4])

IsComplete(t) == IsTokenAt(t, 1, Len(t) + 1)

OneVisibleBook(fs) ==
    /\ Len(fs[1].els) = 1
    /\ fs[1].els[1].kind \in {"slot", "clickable"}
    /\ fs[1].els[1].status = "visible"
    /\ fs[1].els[1].text = TxtBook

(***************************************************************************)
(* C7: every string of the returned list is a complete HH:MM token (hour   *)
(* 0-23, minute 00-59) of the text of a visible scanned element, never a   *)
(* fragment such as a bare hour; one visible element "09:30 - book", slot  *)
(* button or generic clickable, yields exactly ["09:30"].                  *)
(***************************************************************************)
C7_OnlyCompleteTokens ==
    Scanned =>
        /\ \A i \in 1..Len(result.times) :
             /\ IsComplete(result.times[i])
             /\ \E txt \in ReadTexts(variant, frames[1]) :
                  result.times[i] \in ValidTokens(txt)
        /\ OneVisibleBook(frames) => result.times = <<SubText(TxtBook, 1, 6)>>

(***************************************************************************)
(* C8: tokens are normalised to zero-padded HH:MM, so the list never holds *)
(* two strings for one clock time ("9:05" and "09:05" give one entry).     *)
(***************************************************************************)
C8_OneEntryPerClockTime ==
    Scanned =>
        \A i, j \in 1..Len(result.times) :
            (/\ i < j
             /\ IsComplete(result.times[i])
             /\ IsComplete(result.times[j]))
                => ClockOf(result.times[i]) # ClockOf(result.times[j])

(***************************************************************************)
(* C9: the order of the returned list is the chronological order of the    *)
(* times it denotes.                                                       *)
(***************************************************************************)
C9_OrderIsChronological ==
    Scanned =>
        \A i, j \in 1..Len(result.times) :
            (/\ i < j
             /\ IsComplete(result.times[i])
             /\ IsComplete(result.times[j]))
                => ClockOf(result.times[i]) <= ClockOf(result.times[j])

(***************************************************************************)
(* C15: in find_slot_times_in_frame a failure on one candidate element     *)
(* (its visibility check or its text read raises) only loses that          *)
(* element: the tokens of every visible candidate of the same tier and     *)
(* frame, those enumerated after the failing element included, are still   *)
(* extracted in the same scan.                                             *)
(***************************************************************************)
C15_FailureLosesOneElementOnly ==
    Scanned =>
        \A tier \in {SlotTier(frames[1]), GenericTier(frames[1])} :
            \A i \in 1..Len(tier) :
                tier[i].status = "visible" =>
                    ValidTokens(tier[i].text) \subseteq Range(result.times)

(***************************************************************************)
(* C16: any_no_slots_ui_in_frame returns True whenever one of the three    *)
(* forms of the indicator (visible button, visible link, body phrase) is   *)
(* present in the frame and its own lookup works, even when the lookup of  *)
(* another form raises on that call.                                       *)
(***************************************************************************)
C16_OneFormSuffices ==
    pc = "checked" => (IndicatorShown(frames) => result.state = "indicator")

(***************************************************************************)
(* try_click_variants.  plan[i] is what click_first_visible does for the   *)
(* i-th variant: "ok", or the step that raises (page.locator, wait_for,    *)
(* scroll, click) and what it raises (PlaywrightTimeout, PlaywrightError). *)
(* tried is the log of the calls of click_first_visible; clickRet is       *)
(* "running", "true", "false", or "raised" when the call ends by an        *)
(* exception.                                                              *)
(***************************************************************************)
MaxVariants == 3

StrategyOutcomes ==
    {"ok", "locate_error", "wait_timeout", "wait_error", "scroll_timeout",
     "scroll_error", "click_timeout", "click_error"}

\* The steps of click_first_visible that complete before it returns or raises
StepsDone(outcome) ==
    IF outcome \in {"locate_error", "wait_timeout", "wait_error"} THEN 0
    ELSE IF outcome \in {"scroll_timeout", "scroll_error"} THEN 1
    ELSE IF outcome \in {"click_timeout", "click_error"} THEN 2
    ELSE 3

\* The exception class a failing step raises
Raises(outcome) ==
    IF outcome = "ok" THEN "none"
    ELSE IF outcome \in {"wait_timeout", "scroll_timeout", "click_timeout"}
         THEN "PlaywrightTimeout"
         ELSE "PlaywrightError"

\* PlaywrightTimeout is a subclass of PlaywrightError
Subclasses(class) ==
    IF class = "PlaywrightError" THEN {"PlaywrightError", "PlaywrightTimeout"}
    ELSE {class}

CaughtTimeoutOnly == Subclasses("PlaywrightTimeout")

\* except (PlaywrightTimeout, PlaywrightError) as e
Caught == Subclasses("PlaywrightTimeout") \cup Subclasses("PlaywrightError")

DetectIdle ==
    /\ variant \in Variants
    /\ frames = <<>>
    /\ pc = "click"
    /\ now = 0
    /\ deadline = 0
    /\ result = Pending
    /\ slotPolls = 0
    /\ noSlotPolls = 0
    /\ sawToken = FALSE
    /\ sawIndicator = FALSE
    /\ fresh = "no"
    /\ idled = "no"

ClickInit ==
    /\ DetectIdle
    /\ mainLog = <<>>
    /\ plan \in UNION {[1..n -> StrategyOutcomes] : n \in 1..MaxVariants}
    /\ tried = <<>>
    /\ clickRet = "running"

ClickAttemptStopEarly ==
    /\ clickRet = "running"
    /\ Len(tried) < Len(plan)
    /\ LET i == Len(tried) + 1
       IN  /\ tried' = Append(tried, [variant |-> i, steps |-> StepsDone(plan[i])])
           /\ clickRet' = IF plan[i] = "ok" THEN "true"
                          ELSE IF i = 2 THEN "false"
                          ELSE IF Raises(plan[i]) \in Caught THEN clickRet
                          ELSE "raised"
    /\ UNCHANGED plan
    /\ UNCHANGED detectVars
    /\ UNCHANGED mainVars

\* One iteration of the for loop: click_first_visible(page, variant, ...)
\* in the try; return True when it returns, go on when it raises an
\* exception of a caught class, let any other exception through.
ClickAttempt ==
    /\ clickRet = "running"
    /\ Len(tried) < Len(plan)
    /\ LET i == Len(tried) + 1
       IN  /\ tried' = Append(tried, [variant |-> i, steps |-> StepsDone(plan[i])])
           /\ clickRet' = IF plan[i] = "ok" THEN "true"
                          ELSE IF Raises(plan[i]) \in Caught THEN clickRet
                          ELSE "raised"
    /\ UNCHANGED plan
    /\ UNCHANGED detectVars
    /\ UNCHANGED mainVars

\* The for loop ends: print the last error, return False
ClickGiveUp ==
    /\ clickRet = "running"
    /\ Len(tried) = Len(plan)
    /\ clickRet' = "false"
    /\ UNCHANGED <<plan, tried>>
    /\ UNCHANGED detectVars
    /\ UNCHANGED mainVars

ClickNext == ClickAttempt \/ ClickGiveUp

ClickSpec == ClickInit /\ [][ClickNext]_vars

(***************************************************************************)
(* C10: the strategies are tried strictly in declaration order; none is    *)
(* tried after the first one whose wait, scroll and click all succeed,     *)
(* none is tried before all earlier ones have failed, and when the first   *)
(* two fail the third is still tried.                                      *)
(***************************************************************************)
C10_InOrderUntilFirstSuccess ==
    /\ \A k \in 1..Len(tried) :
         /\ tried[k].variant = k
         /\ \A j \in 1..(k - 1) : plan[j] # "ok" /\ tried[j].steps < 3
    /\ \A k \in 1..Len(tried) :
         tried[k].steps = 3 => (k = Len(tried) /\ clickRet = "true")
    /\ clickRet \in {"true", "false"} =>
         \A k \in 1..Len(plan) :
             (\A j \in 1..(k - 1) : plan[j] # "ok") => k <= Len(tried)

C10_Witness ==
    /\ clickRet = "true"
    /\ Len(plan) = 3
    /\ plan[1] # "ok" /\ plan[2] # "ok" /\ plan[3] = "ok"
    /\ Len(tried) = 3

(***************************************************************************)
(* C11: try_click_variants never raises to its caller.  When every         *)
(* strategy fails, by a timeout or by any other Playwright error of the    *)
(* locator resolution, the visibility wait, the scroll or the click, it    *)
(* returns False; it returns True exactly when the click of some strategy  *)
(* succeeded.                                                              *)
(***************************************************************************)
C11_NeverRaisesTrueIffClicked ==
    /\ clickRet \in {"running", "true", "false"}
    /\ clickRet = "true" <=> \E k \in 1..Len(tried) : tried[k].steps = 3
    /\ clickRet = "false" =>
         /\ Len(tried) = Len(plan)
         /\ \A k \in 1..Len(plan) : plan[k] # "ok"
    /\ (Len(tried) = Len(plan) /\ \A k \in 1..Len(plan) : plan[k] # "ok") =>
         /\ clickRet \in {"running", "false"}
         /\ ENABLED ClickGiveUp \/ clickRet = "false"

C11_Witness ==
    /\ clickRet = "false"
    /\ Len(plan) = 3
    /\ plan[1] = "locate_error" /\ plan[2] = "scroll_timeout"
    /\ plan[3] = "click_error"
    /\ Len(tried) = 3

(***************************************************************************)
(* main.  One run: page.goto, the intents in their order, the detector,    *)
(* the report of its state, and the finally block that closes the context  *)
(* and the browser.  detect_availability is taken by what it returns and   *)
(* try_click_variants by its return value; mainLog records every call      *)
(* with what it returned or raised.  pc is "goto", "intents", "detect",    *)
(* "report", and at the end "returned" (main returns) or "raised" (an      *)
(* exception leaves main).                                                 *)
(***************************************************************************)
\* The desc arguments of the calls of try_click_variants, in program order
Intents(v) ==
    IF v = "play"
    THEN <<"Accept cookies", "Prendre rendez-vous", "Non", "Au cabinet",
           "Premiere consultation", "Je n'ai pas de preference">>
    ELSE <<"Accept cookies", "Prendre rendez-vous", "Anesthesiste",
           "Je n'ai pas de preference (1)", "Consultation d'anesthesie",
           "Je n'ai pas de preference (2)">>

\* What detect_availability can hand to main
DetectResults ==
    {[state |-> "available", times |-> <<Txt1000>>],
     [state |-> "available", times |-> <<Txt1000, Txt905>>],
     [state |-> "none", times |-> <<>>],
     [state |-> "unknown", times |-> <<>>]}

\* send_email_notification: "skipped" when EMAIL_ADDRESS or EMAIL_PASSWORD
\* is not set, "sent", or the step of the SMTP exchange that raises
MailOutcomes ==
    {"skipped", "sent", "connect_raised", "login_raised", "send_raised"}

MailRaises(outcome) ==
    outcome \in {"connect_raised", "login_raised", "send_raised"}

Call(name, ret) == [call |-> name, ret |-> ret]

\* finally: context.close(); browser.close()
Finally(log) == Append(log, Call("close", "ok"))

IntentsDone == Cardinality({k \in 1..Len(mainLog) :
                               \E i \in 1..Len(Intents(variant)) :
                                   mainLog[k].call = Intents(variant)[i]})

MainInit ==
    /\ variant \in Variants
    /\ frames = <<>>
    /\ pc = "goto"
    /\ now = 0
    /\ deadline = 0
    /\ result = Pending
    /\ slotPolls = 0
    /\ noSlotPolls = 0
    /\ sawToken = FALSE
    /\ sawIndicator = FALSE
    /\ fresh = "no"
    /\ idled = "no"
    /\ ClickIdle
    /\ mainLog = <<>>

\* page.goto(URL, wait_until="domcontentloaded", timeout=60000)
Goto ==
    /\ pc = "goto"
    /\ \/ /\ mainLog' = Append(mainLog, Call("goto", "ok"))
          /\ pc' = "intents"
       \/ /\ mainLog' = Finally(Append(mainLog, Call("goto", "raised")))
          /\ pc' = "raised"
    /\ UNCHANGED <<variant, frames, now, deadline, result, slotPolls,
                   noSlotPolls, sawToken, sawIndicator, fresh, idled>>
    /\ UNCHANGED clickVars

IntentAbortOnFailure ==
    /\ pc = "intents"
    /\ LET i == IntentsDone + 1
       IN  \E clicked \in BOOLEAN :
             /\ mainLog' = IF clicked
                           THEN Append(mainLog, Call(Intents(variant)[i], "True"))
                           ELSE Finally(Append(mainLog,
                                    Call(Intents(variant)[i], "False")))
             /\ pc' = IF ~clicked THEN "returned"
                      ELSE IF i = Len(Intents(variant)) THEN "detect"
                      ELSE "intents"
    /\ UNCHANGED <<variant, frames, now, deadline, result, slotPolls,
                   noSlotPolls, sawToken, sawIndicator, fresh, idled>>
    /\ UNCHANGED clickVars

\* The next call of try_click_variants; its return value is not used
Intent ==
    /\ pc = "intents"
    /\ LET i == IntentsDone + 1
       IN  \E clicked \in BOOLEAN :
             /\ mainLog' = Append(mainLog,
                    Call(Intents(variant)[i], IF clicked THEN "True" ELSE "False"))
             /\ pc' = IF i = Len(Intents(variant)) THEN "detect" ELSE "intents"
    /\ UNCHANGED <<variant, frames, now, deadline, result, slotPolls,
                   noSlotPolls, sawToken, sawIndicator, fresh, idled>>
    /\ UNCHANGED clickVars

\* state, times = detect_availability(page)
\* (play.py: save_artifacts(page, label=f"state_{state}"), which swallows
\* every exception)
Detect ==
    /\ pc = "detect"
    /\ \E r \in DetectResults :
         /\ result' = r
         /\ mainLog' =
              LET log == Append(mainLog, Call("detect_availability", r.state))
              IN  IF variant = "play"
                  THEN Append(log, Call("save_artifacts", "ok"))
                  ELSE log
    /\ pc' = "report"
    /\ UNCHANGED <<variant, frames, now, deadline, slotPolls, noSlotPolls,
                   sawToken, sawIndicator, fresh, idled>>
    /\ UNCHANGED clickVars

\* if state == "available": print; send_email_notification(...)
\* (playtest.py: then show_popup, which swallows every exception)
ReportAvailable ==
    /\ pc = "report"
    /\ result.state = "available"
    /\ \E mail \in MailOutcomes :
         LET log == Append(mainLog, Call("send_email_notification", mail))
         IN  IF MailRaises(mail)
             THEN /\ mainLog' = Finally(log)
                  /\ pc' = "raised"
             ELSE /\ mainLog' = Finally(IF variant = "playtest"
                                        THEN Append(log, Call("show_popup", "ok"))
                                        ELSE log)
                  /\ pc' = "returned"
    /\ UNCHANGED <<variant, frames, now, deadline, result, slotPolls,
                   noSlotPolls, sawToken, sawIndicator, fresh, idled>>
    /\ UNCHANGED clickVars

\* elif state == "none": print  (playtest.py: then show_popup)
ReportNone ==
    /\ pc = "report"
    /\ result.state = "none"
    /\ mainLog' = Finally(IF variant = "playtest"
                          THEN Append(mainLog, Call("show_popup", "ok"))
                          ELSE mainLog)
    /\ pc' = "returned"
    /\ UNCHANGED <<variant, frames, now, deadline, result, slotPolls,
                   noSlotPolls, sawToken, sawIndicator, fresh, idled>>
    /\ UNCHANGED clickVars

ReportUnknownNotify ==
    /\ pc = "report"
    /\ result.state \notin {"available", "none"}
    /\ mainLog' = Finally(Append(mainLog, Call("send_email_notification", "sent")))
    /\ pc' = "returned"
    /\ UNCHANGED <<variant, frames, now, deadline, result, slotPolls,
                   noSlotPolls, sawToken, sawIndicator, fresh, idled>>
    /\ UNCHANGED clickVars

\* else: print
ReportUnknown ==
    /\ pc = "report"
    /\ result.state \notin {"available", "none"}
    /\ mainLog' = Finally(mainLog)
    /\ pc' = "returned"
    /\ UNCHANGED <<variant, frames, now, deadline, result, slotPolls,
                   noSlotPolls, sawToken, sawIndicator, fresh, idled>>
    /\ UNCHANGED clickVars

MainNext ==
    \/ Goto
    \/ Intent
    \/ Detect
    \/ ReportAvailable
    \/ ReportNone
    \/ ReportUnknown

MainSpec == MainInit /\ [][MainNext]_vars

Calls(name) == {k \in 1..Len(mainLog) : mainLog[k].call = name}

MainEnded == pc \in {"returned", "raised"}

(***************************************************************************)
(* C12: main invokes send_email_notification only when the detection       *)
(* state is 'available'; a run whose state is 'unknown' or 'none' sends    *)
(* no notification.                                                        *)
(***************************************************************************)
C12_NotifyOnlyWhenAvailable ==
    /\ Calls("send_email_notification") # {} => result.state = "available"
    /\ result.state \in {"unknown", "none"} =>
         Calls("send_email_notification") = {}
    /\ Cardinality(Calls("send_email_notification")) <= 1

C12_Witness ==
    /\ pc = "returned"
    /\ result.state = "available"
    /\ \E k \in Calls("send_email_notification") : mainLog[k].ret = "sent"

(***************************************************************************)
(* C13: a failure of the notification delivery never crashes the run:      *)
(* with missing credentials or with a mail transport that fails at         *)
(* connect, login or send, send_email_notification does nothing and main   *)
(* completes normally after an 'available' result.                         *)
(***************************************************************************)
C13_DeliveryFailureHarmless ==
    (MainEnded /\ Calls("send_email_notification") # {}) => pc = "returned"

(***************************************************************************)
(* C14: a failing intent does not abort the flow of main: every intent is  *)
(* attempted exactly once, in the fixed order, whatever the earlier ones   *)
(* returned, and detect_availability is run exactly once, after the last   *)
(* intent.                                                                 *)
(***************************************************************************)
C14_AllIntentsThenDetectOnce ==
    LET n == Len(Intents(variant))
    IN  /\ \A i \in 1..n :
             /\ Cardinality(Calls(Intents(variant)[i])) <= 1
             /\ \A k \in Calls(Intents(variant)[i]) :
                    /\ k = i + 1
                    /\ \A j \in 1..(i - 1) : Calls(Intents(variant)[j]) = {j + 1}
        /\ Calls("detect_availability") \subseteq {n + 2}
        /\ Calls("detect_availability") # {} =>
             \A i \in 1..n : Calls(Intents(variant)[i]) = {i + 1}
        /\ (MainEnded /\ mainLog[1].ret = "ok") =>
             Calls("detect_availability") = {n + 2}

C14_Witness ==
    /\ MainEnded
    /\ Calls("detect_availability") # {}
    /\ mainLog[2].ret = "False"
    /\ mainLog[4].ret = "False"
    /\ mainLog[7].ret = "False"
    /\ mainLog[3].ret = "True"

====
